---- MODULE Spec2Model ----
(***************************************************************************)
(* Model of src/api/http_server.rs: HttpApiServer<U: AuthSystem>.          *)
(*                                                                         *)
(* One call of the gateway at a time (the methods take &mut self).  A call *)
(* advances from one await / system call to the next; pc is the position   *)
(* of the call in flight.  The authentication capability (AuthSystem), the *)
(* HTTP transport (reqwest), the file system and the terminal are the      *)
(* environment: each of their answers is drawn from a small set.           *)
(* log is the per-call history of the calls made to those collaborators,   *)
(* reqs the requests handed to the transport in the call.                  *)
(***************************************************************************)
EXTENDS Integers, Sequences, FiniteSets, TLC

VARIABLES host, port, tls, session,
          op, pc, arg, fs, bytes,
          log, authRes, builder, reqs, response, result,
          prev, calls

vars == <<host, port, tls, session, op, pc, arg, fs, bytes,
          log, authRes, builder, reqs, response, result, prev, calls>>

cfgVars == <<host, port, tls>>

----------------------------------------------------------------------------
(* Bounds and input domains *)

MaxCalls == 2

Tokens == {"t1", "t2"}

NoSession == ""

AuthErrors == {"e_auth", "e_net"}

Statuses == {200, 204, 400, 401, 403, 404, 500}

Hosts == {"localhost"}

Ports == {"8080"}

(* Endpoint configurations of the request-construction specification *)
UrlEndpoints == {[host |-> "localhost", port |-> "8080"],
                 [host |-> "cosmo.exein.io", port |-> "443"]}

ProjectIds == {"p1"}

AnalysisKinds == {"k1"}

(* Source paths handed to create.  A path whose last component is ".."     *)
(* has no file name and, when it exists, is a directory.                   *)
Paths == {[name |-> "fw.bin", hasFileName |-> TRUE],
          [name |-> "..", hasFileName |-> FALSE]}

FsStates(p) == IF p.hasFileName
               THEN {"missing", "dir", "file", "unreadable"}
               ELSE {"missing", "dir"}

----------------------------------------------------------------------------
(* Constants of the source *)

PROJECT_ROUTE_V1 == "/api/v1/projects"

APIKEY_ROUTE_V1 == "/api/v1/api_key"

UPDATES_ROUTE == "/api/updates_check"

CLI_USER_AGENT == "ExeinCLI/version"

MSG_APIKEY_PRESENT == "API key already present!"

MSG_APIKEY_NONE == "No API key found!"

OK == 200

BAD_REQUEST == 400

NO_CONTENT == 204

----------------------------------------------------------------------------
(* Operations *)

AuthenticatedOps == {"create", "overview", "analysis", "delete",
                     "list_projects", "apikey_create", "apikey_list",
                     "apikey_delete"}

Operations == {"updates_check"} \cup AuthenticatedOps

Callable == Operations \cup {"authenticate", "logout"}

NoArg == [path |-> [name |-> "", hasFileName |-> FALSE], descr |-> FALSE,
          id |-> "", kind |-> ""]

Args(o) ==
    CASE o = "create" ->
           {[path |-> p, descr |-> d, id |-> "", kind |-> ""] :
                p \in Paths, d \in BOOLEAN}
      [] o = "overview" ->
           {[NoArg EXCEPT !.id = i] : i \in ProjectIds}
      [] o = "delete" ->
           {[NoArg EXCEPT !.id = i] : i \in ProjectIds}
      [] o = "analysis" ->
           {[NoArg EXCEPT !.id = i, !.kind = k] :
                i \in ProjectIds, k \in AnalysisKinds}
      [] OTHER -> {NoArg}

(* Response bodies the server may send for an operation: the text of the   *)
(* body, whether it deserializes into the operation's result type, and     *)
(* the value it deserializes to.                                           *)
PlainBodies == {[text |-> t, decodes |-> FALSE, json |-> ""] :
                   t \in {"", "boom"}}

Bodies(o) ==
    PlainBodies \cup
    (IF o = "create"
     THEN {[text |-> "{id:u1}", decodes |-> TRUE, json |-> "u1"],
           [text |-> "{id:u2}", decodes |-> TRUE, json |-> "u2"]}
     ELSE {[text |-> "{doc}", decodes |-> TRUE, json |-> "doc"]})

NoBody == [text |-> "", decodes |-> FALSE, json |-> ""]

NoResponse == [status |-> 0, body |-> NoBody, readable |-> FALSE]

(* A response: a status, a body, and whether the body can be read off the  *)
(* connection at all.                                                      *)
Responses(o) ==
    {[status |-> s, body |-> b, readable |-> TRUE] :
        s \in Statuses, b \in Bodies(o)}
    \cup {[status |-> s, body |-> NoBody, readable |-> FALSE] : s \in Statuses}

----------------------------------------------------------------------------
(* Values *)

Res(k, v) == [kind |-> k, val |-> v]

NoResult == Res("None", "")

AuthOk(t) == [ok |-> TRUE, val |-> t]

AuthErr(e) == [ok |-> FALSE, val |-> e]

NoAuthRes == [ok |-> FALSE, val |-> ""]

Ev(e, ok, v) == [ev |-> e, ok |-> ok, val |-> v]

NoRequest == [method |-> "", url |-> <<>>, agent |-> "", auth |-> <<>>,
              form |-> <<>>]

NoPrev == [op |-> "", status |-> 0, kind |-> "", sent |-> 0, token |-> ""]

(* From<AuthError> for ApiServerError, used by `?` at line 72 *)
FromAuthError(e) == Res("AuthenticationError", e)

(* From<reqwest::Error> for ApiServerError, used by `?` after send(),      *)
(* json() and text()                                                       *)
FromReqwestError(e) == Res("RequestError", e)


(* Variant: the two protocols are exchanged. *)
get_protocol_swapped(t) == IF t THEN "http" ELSE "https"

get_protocol(t) == IF t THEN "https" ELSE "http"

request(path, method) ==
    [method |-> method,
     url    |-> <<get_protocol(tls), "://", host, ":", port>> \o path,
     agent  |-> CLI_USER_AGENT,
     auth   |-> <<>>,
     form   |-> <<>>]

RoutePath(o, a) ==
    CASE o = "updates_check" -> <<UPDATES_ROUTE>>
      [] o = "create"        -> <<PROJECT_ROUTE_V1>>
      [] o = "overview"      -> <<PROJECT_ROUTE_V1, "/", a.id, "/overview">>
      [] o = "analysis"      -> <<PROJECT_ROUTE_V1, "/", a.id, "/analysis/", a.kind>>
      [] o = "delete"        -> <<PROJECT_ROUTE_V1, "/", a.id>>
      [] o = "list_projects" -> <<PROJECT_ROUTE_V1>>
      [] OTHER               -> <<APIKEY_ROUTE_V1>>

RouteMethod(o) ==
    CASE o \in {"updates_check", "overview", "analysis", "list_projects",
                "apikey_list"} -> "GET"
      [] o \in {"create", "apikey_create"} -> "POST"
      [] OTHER -> "DELETE"

----------------------------------------------------------------------------
Init ==
    /\ host \in Hosts
    /\ port \in Ports
    /\ tls \in BOOLEAN
    /\ session \in {NoSession} \cup Tokens
    /\ op = ""
    /\ pc = "idle"
    /\ arg = NoArg
    /\ fs = "missing"
    /\ bytes = ""
    /\ log = <<>>
    /\ authRes = NoAuthRes
    /\ builder = NoRequest
    /\ reqs = <<>>
    /\ response = NoResponse
    /\ result = NoResult
    /\ prev = NoPrev
    /\ calls = 0


----------------------------------------------------------------------------
(* The caller starts a call: trait ApiServer for HttpApiServer *)


(* Variant: create authenticates before it looks at the source path. *)
FirstStep_authfirst(o) ==
    CASE o = "updates_check" -> "build"
      [] o = "logout"        -> "logout"
      [] OTHER               -> "logged_in"

FirstStep(o) ==
    CASE o = "updates_check" -> "build"
      [] o = "create"        -> "check_path"
      [] o = "logout"        -> "logout"
      [] OTHER               -> "logged_in"

Invoke ==
    /\ pc = "idle"
    /\ calls < MaxCalls
    /\ \E o \in Callable : \E a \in Args(o) :
         /\ op' = o
         /\ arg' = a
         /\ IF o = "create"
            THEN \E f \in FsStates(a.path) : fs' = f
            ELSE fs' = "missing"
         /\ pc' = FirstStep(o)
    /\ calls' = calls + 1
    /\ UNCHANGED <<cfgVars, session, bytes, log, authRes, builder, reqs,
                   response, result, prev>>

(* The caller receives the result; the per-call state is dropped. *)
Return ==
    /\ pc = "done"
    /\ prev' = [op |-> op, status |-> response.status, kind |-> result.kind,
                sent |-> Len(reqs),
                token |-> IF reqs # <<>> /\ reqs[1].auth # <<>>
                          THEN reqs[1].auth[2] ELSE ""]
    /\ pc' = "idle"
    /\ op' = ""
    /\ arg' = NoArg
    /\ fs' = "missing"
    /\ bytes' = ""
    /\ log' = <<>>
    /\ authRes' = NoAuthRes
    /\ builder' = NoRequest
    /\ reqs' = <<>>
    /\ response' = NoResponse
    /\ result' = NoResult
    /\ UNCHANGED <<cfgVars, session, calls>>

----------------------------------------------------------------------------
(* create, lines 114-144: the local part before the request *)


(* Variant: only a missing path is rejected, a directory is not. *)
create_check_result_nodir(p, f) ==
    IF f = "missing"
    THEN Res("RequestError", "File not found")
    ELSE IF ~p.hasFileName
         THEN Res("RequestError", "Problem with image filename")
         ELSE NoResult

create_check_result(p, f) ==
    IF f \in {"missing", "dir"}
    THEN Res("RequestError", "File not found")
    ELSE IF ~p.hasFileName
         THEN Res("RequestError", "Problem with image filename")
         ELSE NoResult

create_check ==
    /\ pc = "check_path"
    /\ op = "create"
    /\ log' = Append(log, Ev("check_path", fs \notin {"missing", "dir"}, ""))
    /\ LET r == create_check_result(arg.path, fs) IN
         IF r = NoResult
         THEN /\ pc' = "read_file"
              /\ result' = result
         ELSE /\ pc' = "done"
              /\ result' = r
    /\ UNCHANGED <<cfgVars, session, op, arg, fs, bytes, authRes, builder,
                   reqs, response, prev, calls>>

(* The file is removed between the existence check and the read. *)
FsRemove ==
    /\ pc = "read_file"
    /\ fs = "file"
    /\ fs' = "missing"
    /\ UNCHANGED <<cfgVars, session, op, pc, arg, bytes, log, authRes,
                   builder, reqs, response, result, prev, calls>>

(* read_bytes_from_file(fw_filepath): Ok(bytes) for a readable file *)
read_bytes_from_file(f) ==
    IF f = "file" THEN [ok |-> TRUE, val |-> "data"]
                  ELSE [ok |-> FALSE, val |-> "io"]

(* line 132: read_bytes_from_file(..).unwrap() *)
create_read_next(r) == IF r.ok THEN "logged_in" ELSE "panicked"

create_read ==
    /\ pc = "read_file"
    /\ op = "create"
    /\ LET r == read_bytes_from_file(fs) IN
         /\ log' = Append(log, Ev("read_file", r.ok, ""))
         /\ bytes' = IF r.ok THEN r.val ELSE bytes
         /\ pc' = create_read_next(r)
    /\ UNCHANGED <<cfgVars, session, op, arg, fs, authRes, builder, reqs,
                   response, result, prev, calls>>


----------------------------------------------------------------------------
(* authenticate, lines 42-53.  The capability's answers: logged_in gives   *)
(* the cached session or an error, refresh and login a session or an       *)
(* error; a session they produce becomes the cached one.                   *)

LoggedInAnswers == {AuthErr(e) : e \in AuthErrors}
                   \cup (IF session = NoSession THEN {} ELSE {AuthOk(session)})

FreshAnswers == {AuthErr(e) : e \in AuthErrors} \cup {AuthOk(t) : t \in Tokens}

(* The value authenticate returns to its caller: the public method gives   *)
(* it back as it is, authenticated_request goes on with it.                *)
AuthReturn(r) ==
    /\ authRes' = r
    /\ IF op = "authenticate"
       THEN /\ result' = IF r.ok THEN Res("Ok", r.val)
                                 ELSE Res("AuthError", r.val)
            /\ pc' = "done"
       ELSE /\ result' = result
            /\ pc' = "auth_request"


(* Variant: a failed logged_in goes straight to the credential prompt. *)
logged_in_next_skip(r) == IF r.ok THEN "return" ELSE "prompt"

(* line 43 *)
logged_in_next(r) == IF r.ok THEN "return" ELSE "refresh"

authenticate_logged_in ==
    /\ pc = "logged_in"
    /\ \E r \in LoggedInAnswers :
         /\ log' = Append(log, Ev("logged_in", r.ok, r.val))
         /\ IF logged_in_next(r) = "return"
            THEN AuthReturn(r)
            ELSE /\ pc' = logged_in_next(r)
                 /\ UNCHANGED <<authRes, result>>
    /\ UNCHANGED <<cfgVars, session, op, arg, fs, bytes, builder, reqs,
                   response, prev, calls>>


(* Variant: the error of refresh is returned instead of falling through. *)
refresh_next_propagate(r) == "return"

(* line 46 *)
refresh_next(r) == IF r.ok THEN "return" ELSE "prompt"

authenticate_refresh ==
    /\ pc = "refresh"
    /\ \E r \in FreshAnswers :
         /\ log' = Append(log, Ev("refresh", r.ok, r.val))
         /\ session' = IF r.ok THEN r.val ELSE session
         /\ IF refresh_next(r) = "return"
            THEN AuthReturn(r)
            ELSE /\ pc' = refresh_next(r)
                 /\ UNCHANGED <<authRes, result>>
    /\ UNCHANGED <<cfgVars, op, arg, fs, bytes, builder, reqs, response,
                   prev, calls>>

(* line 49: read_username_and_password_from_stdin() *)
authenticate_prompt ==
    /\ pc = "prompt"
    /\ log' = Append(log, Ev("prompt", TRUE, ""))
    /\ pc' = "login"
    /\ UNCHANGED <<cfgVars, session, op, arg, fs, bytes, authRes, builder,
                   reqs, response, result, prev, calls>>

(* line 50: the result of login is the result of authenticate *)
login_result(r) == r

authenticate_login ==
    /\ pc = "login"
    /\ \E r \in FreshAnswers :
         /\ log' = Append(log, Ev("login", r.ok, r.val))
         /\ session' = IF r.ok THEN r.val ELSE session
         /\ AuthReturn(login_result(r))
    /\ UNCHANGED <<cfgVars, op, arg, fs, bytes, builder, reqs, response,
                   prev, calls>>


(* Variant: logout also drops the transport-security flag. *)
logout_reset ==
    /\ pc = "logout"
    /\ \E r \in {AuthOk("()")} \cup {AuthErr(e) : e \in AuthErrors} :
         /\ log' = Append(log, Ev("logout", r.ok, r.val))
         /\ session' = IF r.ok THEN NoSession ELSE session
         /\ result' = IF r.ok THEN Res("Ok", "()") ELSE Res("AuthError", r.val)
    /\ pc' = "done"
    /\ tls' = FALSE
    /\ UNCHANGED <<host, port, op, arg, fs, bytes, authRes, builder, reqs,
                   response, prev, calls>>

(* logout, lines 54-56 *)
logout ==
    /\ pc = "logout"
    /\ \E r \in {AuthOk("()")} \cup {AuthErr(e) : e \in AuthErrors} :
         /\ log' = Append(log, Ev("logout", r.ok, r.val))
         /\ session' = IF r.ok THEN NoSession ELSE session
         /\ result' = IF r.ok THEN Res("Ok", "()") ELSE Res("AuthError", r.val)
    /\ pc' = "done"
    /\ UNCHANGED <<cfgVars, op, arg, fs, bytes, authRes, builder, reqs,
                   response, prev, calls>>

----------------------------------------------------------------------------
(* Request construction *)

Bearer(token) == <<"Bearer ", token>>

(* create, lines 136-144: the multipart form *)
Form(a) == <<"name", "type", "subtype", "file:" \o a.path.name>>
           \o (IF a.descr THEN <<"description">> ELSE <<>>)



(* Variant: a token sent in the previous call is used again. *)
authenticated_builder_stale(o, a, auth_data) ==
    [request(RoutePath(o, a), RouteMethod(o)) EXCEPT
        !.auth = Bearer(IF prev.token # "" THEN prev.token ELSE auth_data.val),
        !.form = IF o = "create" THEN Form(a) ELSE <<>>]

(* Variant: the Authorization header is not attached. *)
authenticated_builder_plain(o, a, auth_data) ==
    [request(RoutePath(o, a), RouteMethod(o)) EXCEPT
        !.form = IF o = "create" THEN Form(a) ELSE <<>>]

(* lines 73-76, and .multipart(form) of create at line 149 *)
authenticated_builder(o, a, auth_data) ==
    [request(RoutePath(o, a), RouteMethod(o)) EXCEPT
        !.auth = Bearer(auth_data.val),
        !.form = IF o = "create" THEN Form(a) ELSE <<>>]



(* Variant: a failed authenticate is tried once more. *)
authenticated_request_next_retry(r) == IF r.ok THEN "send" ELSE "logged_in"

(* Variant: the request goes out whatever authenticate returned. *)
authenticated_request_next_always(r) == "send"

(* line 72: authenticate().await? *)
authenticated_request_next(r) == IF r.ok THEN "send" ELSE "done"

authenticated_request ==
    /\ pc = "auth_request"
    /\ op \in AuthenticatedOps
    /\ pc' = authenticated_request_next(authRes)
    /\ IF authRes.ok
       THEN /\ builder' = authenticated_builder(op, arg, authRes)
            /\ result' = result
       ELSE /\ builder' = builder
            /\ result' = FromAuthError(authRes.val)
    /\ UNCHANGED <<cfgVars, session, op, arg, fs, bytes, log, authRes, reqs,
                   response, prev, calls>>

(* updates_check, lines 91-92: self.request(UPDATES_ROUTE, GET) *)
updates_check_request ==
    /\ pc = "build"
    /\ op = "updates_check"
    /\ builder' = request(RoutePath(op, arg), RouteMethod(op))
    /\ pc' = "send"
    /\ UNCHANGED <<cfgVars, session, op, arg, fs, bytes, log, authRes, reqs,
                   response, result, prev, calls>>


(* Variant: a request answered with a server error is sent once more. *)
send_retry ==
    /\ pc = "send"
    /\ \/ /\ log' = Append(log, Ev("send", FALSE, "net"))
          /\ reqs' = Append(reqs, builder)
          /\ result' = FromReqwestError("net")
          /\ response' = response
          /\ pc' = "done"
       \/ /\ log' = Append(log, Ev("send", TRUE, ""))
          /\ \E resp \in Responses(op) :
               /\ response' = resp
               /\ reqs' = IF resp.status >= 500
                          THEN Append(Append(reqs, builder), builder)
                          ELSE Append(reqs, builder)
          /\ result' = result
          /\ pc' = "status"
    /\ UNCHANGED <<cfgVars, session, op, arg, fs, bytes, authRes, builder,
                   prev, calls>>

(* .send().await?: the transport takes the request and answers with a      *)
(* response or fails.                                                      *)
send ==
    /\ pc = "send"
    /\ reqs' = Append(reqs, builder)
    /\ \/ /\ log' = Append(log, Ev("send", FALSE, "net"))
          /\ result' = FromReqwestError("net")
          /\ response' = response
          /\ pc' = "done"
       \/ /\ log' = Append(log, Ev("send", TRUE, ""))
          /\ \E resp \in Responses(op) : response' = resp
          /\ result' = result
          /\ pc' = "status"
    /\ UNCHANGED <<cfgVars, session, op, arg, fs, bytes, authRes, builder,
                   prev, calls>>

----------------------------------------------------------------------------
(* Response translation *)

(* response.json::<T>().await? *)
json(resp) ==
    IF resp.readable /\ resp.body.decodes
    THEN [ok |-> TRUE, val |-> resp.body.json]
    ELSE [ok |-> FALSE, val |-> "decode"]

(* response.text().await? *)
text(resp) ==
    IF resp.readable
    THEN [ok |-> TRUE, val |-> resp.body.text]
    ELSE [ok |-> FALSE, val |-> "body"]


(* Variant: a body that does not deserialize is reported as an API error. *)
DecodedBody_api(resp) ==
    LET j == json(resp) IN
      IF j.ok THEN Res("Ok", j.val) ELSE Res("ApiError", resp.body.text)

(* Ok(decoded body), or the error of json() through `?` *)
DecodedBody(resp) ==
    LET j == json(resp) IN
      IF j.ok THEN Res("Ok", j.val) ELSE FromReqwestError(j.val)


(* Variant: an empty body is replaced by a default message. *)
ApiErrorBody_default(resp) ==
    LET b == text(resp) IN
      IF b.ok THEN Res("ApiError", IF b.val = "" THEN "unknown error" ELSE b.val)
              ELSE FromReqwestError(b.val)

(* Err(ApiError(body)), or the error of text() through `?` *)
ApiErrorBody(resp) ==
    LET b == text(resp) IN
      IF b.ok THEN Res("ApiError", b.val) ELSE FromReqwestError(b.val)

(* lines 97-103 *)
updates_check_result(resp) ==
    IF resp.status = OK THEN DecodedBody(resp) ELSE ApiErrorBody(resp)

(* ProjectIdDTO: the struct the body of create deserializes into *)
ProjectIdDTO(j) == [id |-> j]


(* Variant: the identifier returned is the nil identifier, not the one of  *)
(* the body.                                                               *)
create_result_nil(resp) ==
    IF resp.status = OK
    THEN LET j == json(resp) IN
           IF j.ok THEN Res("Ok", "u0")
                   ELSE FromReqwestError(j.val)
    ELSE ApiErrorBody(resp)

(* lines 155-161 *)
create_result(resp) ==
    IF resp.status = OK
    THEN LET j == json(resp) IN
           IF j.ok THEN Res("Ok", ProjectIdDTO(j.val).id)
                   ELSE FromReqwestError(j.val)
    ELSE ApiErrorBody(resp)

(* lines 175-181 *)
overview_result(resp) ==
    IF resp.status = OK THEN DecodedBody(resp) ELSE ApiErrorBody(resp)

(* lines 197-203 *)
analysis_result(resp) ==
    IF resp.status = OK THEN DecodedBody(resp) ELSE ApiErrorBody(resp)


(* Variant: any "no content" answer counts as a successful delete. *)
delete_result_2xx(resp) ==
    IF resp.status \in {OK, NO_CONTENT} THEN Res("Ok", "()")
                                        ELSE ApiErrorBody(resp)

(* lines 214-219 *)
delete_result(resp) ==
    IF resp.status = OK THEN Res("Ok", "()") ELSE ApiErrorBody(resp)

(* lines 229-235 *)
list_projects_result(resp) ==
    IF resp.status = OK THEN DecodedBody(resp) ELSE ApiErrorBody(resp)


(* Variant: no special case for 400. *)
apikey_create_result_generic(resp) ==
    IF resp.status = OK THEN DecodedBody(resp) ELSE ApiErrorBody(resp)

(* lines 245-255 *)
apikey_create_result(resp) ==
    IF resp.status = OK
    THEN DecodedBody(resp)
    ELSE IF resp.status = BAD_REQUEST
         THEN Res("ApiError", MSG_APIKEY_PRESENT)
         ELSE ApiErrorBody(resp)


(* Variant: no special case for 204. *)
apikey_list_result_generic(resp) ==
    IF resp.status = OK THEN DecodedBody(resp) ELSE ApiErrorBody(resp)

(* lines 265-273 *)
apikey_list_result(resp) ==
    IF resp.status = OK
    THEN DecodedBody(resp)
    ELSE IF resp.status = NO_CONTENT
         THEN Res("ApiError", MSG_APIKEY_NONE)
         ELSE ApiErrorBody(resp)


(* Variant: the 204 case of apikey_list copied into apikey_delete. *)
apikey_delete_result_nocontent(resp) ==
    IF resp.status = OK
    THEN Res("Ok", "()")
    ELSE IF resp.status = NO_CONTENT
         THEN Res("ApiError", MSG_APIKEY_NONE)
         ELSE ApiErrorBody(resp)

(* lines 283-288 *)
apikey_delete_result(resp) ==
    IF resp.status = OK THEN Res("Ok", "()") ELSE ApiErrorBody(resp)

(* The handler returns the translated response to its caller. *)
Finish(r) ==
    /\ result' = r
    /\ pc' = "done"
    /\ UNCHANGED <<cfgVars, session, op, arg, fs, bytes, log, authRes,
                   builder, reqs, response, prev, calls>>

updates_check ==
    /\ pc = "status"
    /\ op = "updates_check"
    /\ Finish(updates_check_result(response))

create ==
    /\ pc = "status"
    /\ op = "create"
    /\ Finish(create_result(response))

overview ==
    /\ pc = "status"
    /\ op = "overview"
    /\ Finish(overview_result(response))

analysis ==
    /\ pc = "status"
    /\ op = "analysis"
    /\ Finish(analysis_result(response))

delete ==
    /\ pc = "status"
    /\ op = "delete"
    /\ Finish(delete_result(response))

list_projects ==
    /\ pc = "status"
    /\ op = "list_projects"
    /\ Finish(list_projects_result(response))

apikey_create ==
    /\ pc = "status"
    /\ op = "apikey_create"
    /\ Finish(apikey_create_result(response))

apikey_list ==
    /\ pc = "status"
    /\ op = "apikey_list"
    /\ Finish(apikey_list_result(response))

apikey_delete ==
    /\ pc = "status"
    /\ op = "apikey_delete"
    /\ Finish(apikey_delete_result(response))

----------------------------------------------------------------------------
Next ==
    \/ Invoke
    \/ Return
    \/ create_check
    \/ FsRemove
    \/ create_read
    \/ authenticate_logged_in
    \/ authenticate_refresh
    \/ authenticate_prompt
    \/ authenticate_login
    \/ logout
    \/ authenticated_request
    \/ updates_check_request
    \/ send
    \/ updates_check
    \/ create
    \/ overview
    \/ analysis
    \/ delete
    \/ list_projects
    \/ apikey_create
    \/ apikey_list
    \/ apikey_delete

Spec == Init /\ [][Next]_vars

(* The gateway constructed with any endpoint configuration, on a           *)
(* capability that holds no session yet.                                   *)
InitUrl ==
    /\ \E e \in UrlEndpoints : host = e.host /\ port = e.port
    /\ tls \in BOOLEAN
    /\ session = NoSession
    /\ op = ""
    /\ pc = "idle"
    /\ arg = NoArg
    /\ fs = "missing"
    /\ bytes = ""
    /\ log = <<>>
    /\ authRes = NoAuthRes
    /\ builder = NoRequest
    /\ reqs = <<>>
    /\ response = NoResponse
    /\ result = NoResult
    /\ prev = NoPrev
    /\ calls = 0

SpecUrl == InitUrl /\ [][Next]_vars

TypeOK ==
    /\ pc \in {"idle", "build", "check_path", "read_file", "panicked",
               "logged_in", "refresh", "prompt", "login", "auth_request",
               "logout", "send", "status", "done"}
    /\ op \in Callable \cup {""}
    /\ calls \in 0..MaxCalls
    /\ Len(reqs) \in 0..MaxCalls


----------------------------------------------------------------------------
(* Properties *)

AuthSteps == <<"logged_in", "refresh", "prompt", "login">>

IsAuthEv(e) == e.ev \in {"logged_in", "refresh", "prompt", "login"}

(* The calls made to the authentication capability and the terminal in     *)
(* the call in flight, in order.                                           *)
AuthLog == SelectSeq(log, IsAuthEv)

IsSendEv(e) == e.ev = "send"

SendLog == SelectSeq(log, IsSendEv)

ErrorKinds == {"RequestError", "ApiError", "AuthenticationError"}

(* authenticate has returned in the call in flight *)
AuthReturned == pc \in {"auth_request", "send", "status", "done"}
                /\ op \in AuthenticatedOps \cup {"authenticate"}
                /\ (op = "create" => AuthLog # <<>>)

(* C1: in every call of authenticate the steps run in the order logged_in, *)
(* refresh, prompt, login; nothing follows a successful logged_in; refresh *)
(* follows a failed logged_in and comes before the prompt and login, which *)
(* are reached only after logged_in and refresh have both failed.          *)
C1_AuthOrder ==
    LET a == AuthLog IN
      /\ Len(a) <= 4
      /\ \A i \in 1..Len(a) : a[i].ev = AuthSteps[i]
      /\ \A i \in 1..Len(a) : a[i].ok /\ a[i].ev # "prompt" => Len(a) = i
      /\ AuthReturned => a[Len(a)].ok \/ Len(a) = 4

C1_Witness ==
    /\ op = "delete"
    /\ pc = "send"
    /\ Len(AuthLog) = 4
    /\ ~AuthLog[1].ok /\ ~AuthLog[2].ok /\ AuthLog[4].ok

PathRejected == \E i \in 1..Len(log) : log[i].ev = "check_path" /\ ~log[i].ok

(* C2: create with a source path that does not exist or is a directory     *)
(* returns a RequestError and no HTTP request is sent in that call.        *)
C2_BadPathNoRequest ==
    op = "create" /\ PathRejected =>
        /\ pc = "done"
        /\ result.kind = "RequestError"
        /\ reqs = <<>>
        /\ SendLog = <<>>

C2_Witness ==
    /\ op = "create"
    /\ fs = "dir"
    /\ arg.path.hasFileName
    /\ pc = "done"
    /\ result.kind = "RequestError"

Answered == pc = "done" /\ op \in Operations /\ response.status # 0

(* C3: an operation returns success only on status 200, a 200 response     *)
(* whose body decodes (or is not needed) returns success, and every other  *)
(* status returns an error.                                                *)
C3_SuccessIffOk ==
    /\ pc = "done" /\ op \in Operations /\ result.kind = "Ok"
          => response.status = 200
    /\ Answered /\ response.status = 200
          /\ ((response.readable /\ response.body.decodes)
                 \/ op \in {"delete", "apikey_delete"})
          => result.kind = "Ok"
    /\ Answered /\ response.status # 200 => result.kind \in ErrorKinds

C3_Witness ==
    /\ Answered
    /\ op = "delete"
    /\ response.status = 204
    /\ result.kind = "ApiError"

SpecialCased(o, st) == \/ o = "apikey_create" /\ st = 400
                       \/ o = "apikey_list" /\ st = 204

(* C4: a status that is not 200 and not special-cased for the operation,   *)
(* with body text T, gives an API error whose message is T exactly.        *)
C4_BodyVerbatim ==
    Answered /\ response.status # 200 /\ response.readable
             /\ ~SpecialCased(op, response.status)
       => result = [kind |-> "ApiError", val |-> response.body.text]

C4_Witness ==
    /\ Answered
    /\ op = "list_projects"
    /\ response.status = 500
    /\ response.readable
    /\ response.body.text = ""
    /\ result = [kind |-> "ApiError", val |-> ""]

(* C5: a call sends at most one HTTP request whatever the status; delete   *)
(* answered 200 and then delete answered 404 give success and then a       *)
(* generic API error, two requests in all.                                 *)
C5_NoRetry ==
    /\ Len(reqs) <= 1
    /\ Len(SendLog) = Len(reqs)
    /\ prev.sent <= 1
    /\ (prev.op = "delete" /\ prev.status = 200 /\ op = "delete"
          /\ Answered /\ response.status = 404 /\ response.readable)
       => /\ prev.kind = "Ok"
          /\ result = [kind |-> "ApiError", val |-> response.body.text]
          /\ prev.sent + Len(reqs) = 2

C5_Witness ==
    /\ prev.op = "delete" /\ prev.status = 200 /\ prev.kind = "Ok"
    /\ op = "delete" /\ Answered /\ response.status = 404
    /\ result.kind = "ApiError"
    /\ prev.sent + Len(reqs) = 2

(* C6: every call ends by returning a typed result or a typed error to the *)
(* caller; create with a source path that passes the existence check but   *)
(* cannot be read returns a RequestError.                                  *)
C6_TypedOutcome ==
    /\ pc # "panicked"
    /\ \A i \in 1..Len(log) :
          log[i].ev = "read_file" /\ ~log[i].ok
             => pc = "done" /\ result.kind = "RequestError"

(* C7: apikey_list on status 204 returns the API error "No API key found!" *)
(* whatever the body is.                                                   *)
C7_ApikeyListNoContent ==
    Answered /\ op = "apikey_list" /\ response.status = 204
       => result = [kind |-> "ApiError", val |-> "No API key found!"]

C7_Witness ==
    /\ Answered
    /\ op = "apikey_list"
    /\ response.status = 204
    /\ response.body.text = "boom"
    /\ result.val = "No API key found!"

(* C8: apikey_create on status 400 returns the API error                   *)
(* "API key already present!" whatever the body is.                        *)
C8_ApikeyCreateBadRequest ==
    Answered /\ op = "apikey_create" /\ response.status = 400
       => result = [kind |-> "ApiError", val |-> "API key already present!"]

C8_Witness ==
    /\ Answered
    /\ op = "apikey_create"
    /\ response.status = 400
    /\ response.body.text = "boom"
    /\ result.val = "API key already present!"

(* C9: an authenticated operation has a token from authenticate before its *)
(* request is sent and the request carries Authorization: Bearer <token>;  *)
(* updates_check never calls the authentication capability and its request *)
(* has no Authorization header, whatever the login state.                  *)
C9_AuthBeforeRequest ==
    /\ op = "updates_check" =>
          /\ AuthLog = <<>>
          /\ builder.auth = <<>>
          /\ \A i \in 1..Len(reqs) : reqs[i].auth = <<>>
    /\ op \in AuthenticatedOps =>
          \A i \in 1..Len(log) : log[i].ev = "send" =>
             /\ \E j \in 1..(i - 1) :
                   /\ IsAuthEv(log[j]) /\ log[j].ev # "prompt" /\ log[j].ok
                   /\ \A k \in 1..Len(reqs) :
                         reqs[k].auth = <<"Bearer ", log[j].val>>
             /\ authRes.ok
    /\ op \in AuthenticatedOps /\ pc = "send" => builder.auth # <<>>

C9_Witness ==
    /\ prev.op = "updates_check" /\ prev.sent = 1
    /\ session # NoSession
    /\ op = "overview"
    /\ Len(reqs) = 1
    /\ reqs[1].auth = <<"Bearer ", session>>

LoginFailed == \E i \in 1..Len(log) : log[i].ev = "login" /\ ~log[i].ok

(* C10: when authenticate fails inside an authenticated operation the      *)
(* operation returns an error carrying the error of login, sends no HTTP   *)
(* request and does not call authenticate again.                           *)
C10_AuthFailureSurfaces ==
    op \in AuthenticatedOps /\ LoginFailed =>
        /\ pc \in {"auth_request", "done"}
        /\ reqs = <<>>
        /\ SendLog = <<>>
        /\ Len(AuthLog) = 4
        /\ pc = "done" =>
              /\ result.kind \in ErrorKinds
              /\ result.val = AuthLog[4].val

C10_Witness ==
    /\ op = "apikey_delete"
    /\ LoginFailed
    /\ pc = "done"
    /\ result.val = "e_auth"
    /\ reqs = <<>>


(* C11: the URL of every request is protocol "://" host ":" port path,     *)
(* with protocol "https" when tls is set and "http" when it is not,        *)
(* whatever the host, the port and the path.                               *)
C11_UrlFormat ==
    LET protocol == IF tls THEN "https" ELSE "http"
        Url(path) == <<protocol, "://", host, ":", port>> \o path
    IN /\ \A i \in 1..Len(reqs) : reqs[i].url = Url(RoutePath(op, arg))
       /\ pc = "send" => builder.url = Url(RoutePath(op, arg))

C11_Witness ==
    /\ tls
    /\ host = "cosmo.exein.io"
    /\ port = "443"
    /\ op = "analysis"
    /\ Len(reqs) = 1
    /\ reqs[1].url = <<"https", "://", "cosmo.exein.io", ":", "443",
                       "/api/v1/projects", "/", "p1", "/analysis/", "k1">>


(* The identifier written in a response body of create *)
IdOfText(t) == CASE t = "{id:u1}" -> "u1"
                 [] t = "{id:u2}" -> "u2"
                 [] OTHER -> "none"

(* C12: create on status 200 with body {"id": u} returns Ok(u), the        *)
(* identifier of the body.                                                 *)
C12_CreateReturnsId ==
    Answered /\ op = "create" /\ response.status = 200 /\ response.readable
             /\ IdOfText(response.body.text) # "none"
       => result = [kind |-> "Ok", val |-> IdOfText(response.body.text)]

C12_Witness ==
    /\ Answered
    /\ op = "create"
    /\ response.status = 200
    /\ response.body.text = "{id:u2}"
    /\ result = [kind |-> "Ok", val |-> "u2"]

Count(e) == Len(SelectSeq(log, LAMBDA x : x.ev = e))

(* C13: in one call each of logged_in, refresh, prompt and login is called *)
(* at most once, and an authenticated operation that gets past its local   *)
(* input calls authenticate exactly once.                                  *)
C13_AtMostOnce ==
    /\ \A i \in 1..4 : Count(AuthSteps[i]) <= 1
    /\ op \in AuthenticatedOps /\ pc \in {"auth_request", "send", "status"}
          => Count("logged_in") = 1
    /\ op \in AuthenticatedOps /\ pc = "done"
          /\ ~(op = "create" /\ PathRejected)
          => Count("logged_in") = 1

C13_Witness ==
    /\ op = "create"
    /\ pc = "done"
    /\ Count("logged_in") = 1
    /\ Count("refresh") = 1
    /\ Count("prompt") = 1
    /\ Count("login") = 1
    /\ result.kind = "AuthenticationError"

(* The first step of the call in flight that gave a session, 0 if none *)
FirstOk ==
    LET a == AuthLog
        S == {i \in 1..Len(a) : a[i].ev # "prompt" /\ a[i].ok}
    IN IF S = {} THEN 0 ELSE CHOOSE i \in S : \A j \in S : i <= j

(* C14: authenticate returns an error exactly when logged_in, refresh and  *)
(* login all fail, and the error is the one of login; otherwise it returns *)
(* the session of the first step that succeeded.                           *)
C14_AuthResult ==
    AuthReturned =>
       LET a == AuthLog IN
         /\ ~authRes.ok <=> /\ Len(a) = 4
                            /\ ~a[1].ok /\ ~a[2].ok /\ ~a[4].ok
         /\ ~authRes.ok => authRes.val = a[4].val
         /\ authRes.ok => FirstOk # 0 /\ authRes.val = a[FirstOk].val
         /\ op = "authenticate" /\ pc = "done" =>
               result = [kind |-> IF authRes.ok THEN "Ok" ELSE "AuthError",
                         val |-> authRes.val]

C14_Witness ==
    /\ op = "authenticate"
    /\ pc = "done"
    /\ Len(AuthLog) = 4
    /\ AuthLog[1].val = "e_net"
    /\ AuthLog[2].val = "e_net"
    /\ AuthLog[4].val = "e_auth"
    /\ result = [kind |-> "AuthError", val |-> "e_auth"]


(* C15: the bearer token of a request is the token of the session that     *)
(* authenticate returned in the same call, whatever was sent in earlier    *)
(* calls and however the session changed in between.                       *)
C15_TokenOfThisCall ==
    op \in AuthenticatedOps =>
       \A k \in 1..Len(reqs) :
          /\ authRes.ok
          /\ FirstOk # 0
          /\ authRes.val = AuthLog[FirstOk].val
          /\ reqs[k].auth = <<"Bearer ", authRes.val>>

C15_Witness ==
    /\ prev.token = "t1"
    /\ op = "list_projects"
    /\ Len(reqs) = 1
    /\ reqs[1].auth = <<"Bearer ", "t2">>
    /\ authRes.val = "t2"

(* C16: status 200 with a body that does not deserialize into the result   *)
(* type gives a transport-level error; delete and apikey_delete succeed on *)
(* 200 without reading the body.                                           *)
C16_DecodeFailure ==
    /\ Answered /\ response.status = 200
          /\ op \notin {"delete", "apikey_delete"}
          /\ ~(response.readable /\ response.body.decodes)
          => result.kind = "RequestError"
    /\ Answered /\ response.status = 200
          /\ op \in {"delete", "apikey_delete"}
          => result = [kind |-> "Ok", val |-> "()"]

C16_Witness ==
    /\ Answered
    /\ op = "overview"
    /\ response.status = 200
    /\ response.readable
    /\ response.body.text = "boom"
    /\ result.kind = "RequestError"

(* C17: create checks the source path and reads the file before it         *)
(* authenticates; with a path that does not exist or is a directory the    *)
(* authentication capability is not called and its session is unchanged.   *)
C17_LocalBeforeAuth ==
    /\ [](op = "create" =>
            /\ PathRejected => AuthLog = <<>>
            /\ AuthLog # <<>> =>
                  /\ Len(log) >= 3
                  /\ log[1] = [ev |-> "check_path", ok |-> TRUE, val |-> ""]
                  /\ log[2] = [ev |-> "read_file", ok |-> TRUE, val |-> ""])
    /\ [][op = "create" /\ (pc \in {"check_path", "read_file"} \/ PathRejected)
             => session' = session]_vars

C17_Witness ==
    /\ op = "create"
    /\ PathRejected
    /\ fs = "missing"
    /\ pc = "done"
    /\ AuthLog = <<>>
    /\ session = "t1"

(* C18: 204 gives "No API key found!" on apikey_list only and 400 gives    *)
(* "API key already present!" on apikey_create only; on every other        *)
(* operation these statuses give an API error with the response body.      *)
C18_SpecialCasesPerOperation ==
    Answered /\ response.readable =>
       /\ response.status = 204 /\ op # "apikey_list"
             => result = [kind |-> "ApiError", val |-> response.body.text]
       /\ response.status = 400 /\ op # "apikey_create"
             => result = [kind |-> "ApiError", val |-> response.body.text]
       /\ result.val = "No API key found!"
             /\ response.body.text # "No API key found!"
             => op = "apikey_list" /\ response.status = 204
       /\ result.val = "API key already present!"
             /\ response.body.text # "API key already present!"
             => op = "apikey_create" /\ response.status = 400

C18_Witness ==
    /\ Answered
    /\ op = "apikey_delete"
    /\ response.status = 204
    /\ response.readable
    /\ result = [kind |-> "ApiError", val |-> "boom"]

(* C19: no call changes host, port or tls, whether it succeeds or fails.   *)
C19_ConfigImmutable ==
    [][host' = host /\ port' = port /\ tls' = tls]_vars

C19_Witness ==
    /\ tls
    /\ host = "cosmo.exein.io"
    /\ port = "443"
    /\ prev.op = "logout"
    /\ prev.kind = "Ok"
    /\ op = "delete"
    /\ pc = "done"
    /\ result.kind = "AuthenticationError"

====
